---- MODULE Spec2Model ----
(***************************************************************************)
(* Verification model of the class-balanced random forest sampler           *)
(* (epiml/epimlsklearn/rfsubsample.py), the PU metrics (creonmetrics.py)    *)
(* and the multi-metric scorer with its score-grid aggregator               *)
(* (frankenscorer.py).                                                      *)
(*                                                                          *)
(* Conventions.  Rows of a label vector are numbered 1..Len(y) (the source  *)
(* numbers them from 0).  A ratio is the pair <<num, den>> standing for the *)
(* number num/den.  An array of drawn row indices is kept as a bag: its     *)
(* only consumer is bincount (rfsubsample.py:70), which ignores the order.  *)
(***************************************************************************)
EXTENDS Integers, Sequences, FiniteSets, Bags, TLC

(* ---------------------------------------------------------------------- *)
(* Bounds of the model                                                     *)
(* ---------------------------------------------------------------------- *)
MaxRows == 4

MaxRatioNum == 2

(* Denominators of the ratios that are tried: n/1, n/2 and n/10. *)
RatioDens == {1, 2, 10}

Labels == {-1, 0, 1}

Ratios == {<<n, d>> : n \in 0..MaxRatioNum, d \in RatioDens}

LabelVectors(n) == UNION {[1..k -> Labels] : k \in 1..n}

MaxFitRows == 1

MaxFeatures == 1

MaxTrees == 2

MaxJobs == 2

MaxFits == 2

MaxFoldRows == 3

(* Rows of the folds behind a score grid; two is the least a fold needs to
   hold both classes. *)
GridFoldRows == 2

MaxSplits == 11

VARIABLES
    s_y,              \* sampler: the label vector y
    s_ratio,          \* sampler: target_imbalance_ratio
    s_pc,             \* sampler: "ready" before the call, "done" after it
    s_result,         \* sampler: "none", "returned" or "ValueError"
    maj_indices,      \* sampler: rows drawn from the majority group
    sample_indices,   \* sampler: the returned plan (bag of rows)
    n_estimators,     \* forest parameter
    warm_start,       \* forest parameter
    bootstrap,        \* forest parameter
    target_imbalance_ratio,  \* forest parameter
    n_jobs,           \* forest parameter: number of worker threads
    estimators_,      \* the ensemble's tree collection
    n_features_,      \* fitted attribute, 0 while the attribute is absent
    n_outputs_,       \* fitted attribute, 0 while the attribute is absent
    classes_,         \* fitted attribute: the class labels, and whether they
                      \* are wrapped in a one-element list (one per output)
    n_classes_,       \* fitted attribute: the class count, wrapped likewise
    f_pc,             \* fit: "idle" or "parallel" (inside the Parallel call)
    f_y,              \* fit: the label vector of the running call
    trees,            \* fit: the local list of new trees
    dispatched,       \* fit: number of tasks handed to a worker so far
    running,          \* fit: tasks being executed by a worker
    completed,        \* fit: finished tasks, in the order they finished
    pre,              \* estimator state at the entry of the latest fit call
    outcome,          \* latest fit: "none", "ok", "warn" or "error"
    error,            \* latest fit: which ValueError was raised, if any
    fit_no,           \* number of fit calls made so far
    m_y_true,         \* metrics: true labels of the fold
    m_y_pred,         \* metrics: predicted labels of the fold
    m_prior,          \* metrics: the prior given to prior_squared_error
    m_called,         \* metrics: the functions that have been called
    m_pu,             \* metrics: what pu_score computed
    m_pse,            \* metrics: what prior_squared_error returned
    decision_score,   \* scorer: name of the decision metric
    cv,               \* searcher.cv, 0 standing for None
    fold_rows,        \* search: the most rows a fold of the data set has
    g_pc,             \* search: "new", "raised", "searched", "grid", "nested"
    g_y_true,         \* search: true labels of the scored fold
    g_y_pred,         \* search: predictions of the estimator on the fold
    cv_results_,      \* search: score data per split and train/test
    score_grid        \* the table built by the aggregator

samplerVars == <<s_y, s_ratio, s_pc, s_result, maj_indices, sample_indices>>

paramVars == <<warm_start, bootstrap, target_imbalance_ratio, n_jobs>>

attrVars == <<n_features_, n_outputs_, classes_, n_classes_>>

taskVars == <<f_y, trees, dispatched, running, completed>>

fitVars == <<n_estimators, paramVars, estimators_, attrVars, f_pc, taskVars,
             pre, outcome, error, fit_no>>

metricVars == <<m_y_true, m_y_pred, m_prior, m_called, m_pu, m_pse>>

(* The value of a result that has not been computed. *)
NoNumber == [kind |-> "none", num |-> 0, den |-> 1]

gridVars == <<decision_score, cv, fold_rows, g_pc, g_y_true, g_y_pred, cv_results_,
              score_grid>>

vars == <<samplerVars, fitVars, metricVars, gridVars>>

(* ---------------------------------------------------------------------- *)
(* Ratio arithmetic                                                        *)
(* ---------------------------------------------------------------------- *)

(* The test with an inclusive lower bound: 0.1 <= r <= 1.0. *)
ratio_in_range_bug(r) == 10 * r[1] >= r[2] /\ r[1] <= r[2]

(* 0.1 < r <= 1.0; fit raises ValueError when this is false. *)
ratio_in_range(r) == 10 * r[1] > r[2] /\ r[1] <= r[2]

ValidRatios == {r \in Ratios : ratio_in_range(r)}

(* ---------------------------------------------------------------------- *)
(* _generate_class_indices and _generate_sample_indices                    *)
(* ---------------------------------------------------------------------- *)
RECURSIVE SortedSeq(_)
SortedSeq(S) ==
    IF S = {} THEN <<>>
    ELSE LET m == CHOOSE x \in S : \A z \in S : x <= z
         IN  <<m>> \o SortedSeq(S \ {m})

(* np.unique(y): the distinct values of y in ascending order. *)
unique(y) == SortedSeq({y[i] : i \in DOMAIN y})

generate_class_indices(y) ==
    [c \in 1..Len(unique(y)) |-> {i \in DOMAIN y : y[i] = unique(y)[c]}]

class_len(y) ==
    [c \in DOMAIN generate_class_indices(y) |->
        Cardinality(generate_class_indices(y)[c])]

(* np.argmin / np.argmax: the first position of the extreme value. *)
argmin(f) ==
    CHOOSE c \in DOMAIN f :
        /\ \A z \in DOMAIN f : f[c] <= f[z]
        /\ \A z \in DOMAIN f : f[z] = f[c] => c <= z

argmax(f) ==
    CHOOSE c \in DOMAIN f :
        /\ \A z \in DOMAIN f : f[c] >= f[z]
        /\ \A z \in DOMAIN f : f[z] = f[c] => c <= z

minority_class_idx(y) == argmin(class_len(y))

majority_class_idx(y) == argmax(class_len(y))

min_samples(y) == class_len(y)[minority_class_idx(y)]

(* int(min_samples / target_imbalance_ratio) *)
maj_samples(y, r) == (min_samples(y) * r[2]) \div r[1]

(* The sample size of a plain bootstrap, one draw per row. *)
n_samples_bug(y, r) == Len(y)

n_samples(y, r) == min_samples(y) + maj_samples(y, r)

(* choice(population, size, replace=False): the possible draws; none when
   size exceeds the population, where choice raises ValueError. *)
choice_without_replacement(population, size) ==
    {S \in SUBSET population : Cardinality(S) = size}

RECURSIVE choice_with_replacement(_, _)
(* choice(population, size, replace=True): every bag of `size` draws. *)
choice_with_replacement(population, size) ==
    IF population = {}
    THEN IF size = 0 THEN {EmptyBag} ELSE {}
    ELSE LET x == CHOOSE x \in population : TRUE
         IN  UNION {
               {IF k = 0 THEN b ELSE b @@ (x :> k) :
                   b \in choice_with_replacement(population \ {x}, size - k)}
               : k \in 0..size}

min_indices(y) == generate_class_indices(y)[minority_class_idx(y)]

majority_rows(y) == generate_class_indices(y)[majority_class_idx(y)]

(* np.hstack((a, b)) of two arrays of distinct rows: the bag of its entries,
   a row of both arrays being held twice. *)
hstack(a, b) == SetToBag(a) (+) SetToBag(b)

(* np.hstack((min_indices, maj_indices)), as the set of rows it holds. *)
indices_to_choose_from(y, maj) == min_indices(y) \cup maj

SamplerRaises(y, r) == maj_samples(y, r) > Cardinality(majority_rows(y))

(* The estimator state that a fit call finds at its entry. *)
snapshot ==
    [estimators_ |-> estimators_,
     n_features_ |-> n_features_,
     n_outputs_  |-> n_outputs_,
     classes_    |-> classes_,
     n_classes_  |-> n_classes_]

SamplerIdle ==
    /\ s_y = <<>>
    /\ s_ratio = <<1, 1>>
    /\ s_pc = "off"
    /\ s_result = "none"
    /\ maj_indices = {}
    /\ sample_indices = EmptyBag

FitIdle ==
    /\ n_estimators = 0
    /\ warm_start = FALSE
    /\ bootstrap = TRUE
    /\ target_imbalance_ratio = <<1, 1>>
    /\ n_jobs = 1
    /\ estimators_ = <<>>
    /\ n_features_ = 0
    /\ n_outputs_ = 0
    /\ classes_ = [list |-> FALSE, values |-> <<>>]
    /\ n_classes_ = [list |-> FALSE, value |-> 0]
    /\ f_pc = "off"
    /\ f_y = <<>>
    /\ trees = <<>>
    /\ dispatched = 0
    /\ running = {}
    /\ completed = <<>>
    /\ pre = snapshot
    /\ outcome = "none"
    /\ error = "none"
    /\ fit_no = 0

MetricsIdle ==
    /\ m_y_true = <<>>
    /\ m_y_pred = <<>>
    /\ m_prior = <<0, 1>>
    /\ m_called = {}
    /\ m_pu = [recall |-> NoNumber, pr_true |-> NoNumber, value |-> NoNumber]
    /\ m_pse = NoNumber

GridIdle ==
    /\ decision_score = "labeled_f1"
    /\ cv = 0
    /\ fold_rows = 0
    /\ g_pc = "off"
    /\ g_y_true = <<>>
    /\ g_y_pred = <<>>
    /\ cv_results_ = <<>>
    /\ score_grid = <<>>

InitSampler ==
    /\ FitIdle
    /\ MetricsIdle
    /\ GridIdle
    /\ s_y \in LabelVectors(MaxRows)
    /\ s_ratio \in ValidRatios
    /\ s_pc = "ready"
    /\ s_result = "none"
    /\ maj_indices = {}
    /\ sample_indices = EmptyBag

GenerateSampleIndicesReturns ==
    /\ s_pc = "ready"
    /\ ~SamplerRaises(s_y, s_ratio)
    /\ \E maj \in choice_without_replacement(majority_rows(s_y),
                                             maj_samples(s_y, s_ratio)) :
         \E plan \in choice_with_replacement(indices_to_choose_from(s_y, maj),
                                             n_samples(s_y, s_ratio)) :
            /\ maj_indices' = maj
            /\ sample_indices' = plan
    /\ s_result' = "returned"
    /\ s_pc' = "done"
    /\ UNCHANGED <<s_y, s_ratio>>
    /\ UNCHANGED <<fitVars, metricVars, gridVars>>

GenerateSampleIndicesRaises ==
    /\ s_pc = "ready"
    /\ SamplerRaises(s_y, s_ratio)
    /\ s_result' = "ValueError"
    /\ s_pc' = "done"
    /\ UNCHANGED <<s_y, s_ratio, maj_indices, sample_indices>>
    /\ UNCHANGED <<fitVars, metricVars, gridVars>>

NextSampler ==
    \/ GenerateSampleIndicesReturns
    \/ GenerateSampleIndicesRaises

SpecSampler == InitSampler /\ [][NextSampler]_vars

(* ---------------------------------------------------------------------- *)
(* RandomForestSubsample.fit                                               *)
(* ---------------------------------------------------------------------- *)

(* The attributes a fit call assigns while it converts its input, before it
   checks any parameter (lines 173, 187 and, inside
   _validate_y_class_weight, classes_ and n_classes_ as one-element lists). *)
remap_output(nf, y) ==
    [n_features_ |-> nf,
     n_outputs_  |-> 1,
     classes_    |-> [list |-> TRUE, values |-> unique(y)],
     n_classes_  |-> [list |-> TRUE, value |-> Len(unique(y))]]

(* Decapsulate classes_ attributes (lines 260-262). *)
decapsulate(a) ==
    [a EXCEPT !.classes_.list = FALSE, !.n_classes_.list = FALSE]

(* The parameter checks of fit in the order the code makes them; "none"
   when the call gets past them. _validate_estimator rejects a tree count
   that is not positive. *)
check_parameters ==
    IF n_estimators <= 0 THEN "n_estimators"
    ELSE IF ~bootstrap THEN "bootstrap"
    ELSE IF ~ratio_in_range(target_imbalance_ratio) THEN "ratio"
    ELSE "none"

(* The collection kept whatever warm_start says. *)
kept_estimators_bug(warm, old) == old

(* if not self.warm_start: self.estimators_ = [] (lines 215-217) *)
kept_estimators(warm, old) == IF warm THEN old ELSE <<>>

(* The draws skipped so that a warm start continues the seed stream where a
   cold fit of the same forest would be (lines 230-233). *)
skipped_draws(warm, old) == IF warm /\ Len(old) > 0 THEN Len(old) ELSE 0

(* The loop of _make_estimator calls (lines 235-239): tree i takes the next
   draw of the stream as its random_state. A draw is named by its position
   in the stream of RandomState(self.random_state). *)
make_estimators(n_more, skipped, call) ==
    [i \in 1..n_more |->
        [random_state |-> skipped + i, born |-> call, fitted |-> FALSE]]

(* The trees in the order in which their tasks finished. *)
collect_bug(new_trees, order) ==
    [k \in DOMAIN new_trees |-> new_trees[order[k]]]

(* Parallel(...)(...) returns its results in the order of its input. *)
collect(new_trees, order) == new_trees

InitFit ==
    /\ SamplerIdle
    /\ MetricsIdle
    /\ GridIdle
    /\ n_estimators \in 0..MaxTrees
    /\ warm_start \in BOOLEAN
    /\ bootstrap \in BOOLEAN
    /\ target_imbalance_ratio \in Ratios
    /\ n_jobs \in 1..MaxJobs
    /\ estimators_ = <<>>
    /\ n_features_ = 0
    /\ n_outputs_ = 0
    /\ classes_ = [list |-> FALSE, values |-> <<>>]
    /\ n_classes_ = [list |-> FALSE, value |-> 0]
    /\ f_pc = "idle"
    /\ f_y = <<>>
    /\ trees = <<>>
    /\ dispatched = 0
    /\ running = {}
    /\ completed = <<>>
    /\ pre = snapshot
    /\ outcome = "none"
    /\ error = "none"
    /\ fit_no = 0

SetAttrs(a) ==
    /\ n_features_' = a.n_features_
    /\ n_outputs_' = a.n_outputs_
    /\ classes_' = a.classes_
    /\ n_classes_' = a.n_classes_

(* est.n_estimators = n between two fit calls *)
SetNEstimators(n) ==
    /\ f_pc = "idle"
    /\ n # n_estimators
    /\ n_estimators' = n
    /\ outcome' = "none"
    /\ error' = "none"
    /\ pre' = snapshot
    /\ UNCHANGED <<paramVars, estimators_, attrVars, f_pc, taskVars, fit_no>>
    /\ UNCHANGED <<samplerVars, metricVars, gridVars>>

(* fit raises ValueError at one of its parameter checks *)
FitRejected(nf, y) ==
    /\ f_pc = "idle"
    /\ fit_no < MaxFits
    /\ check_parameters # "none"
    /\ pre' = snapshot
    /\ fit_no' = fit_no + 1
    /\ SetAttrs(remap_output(nf, y))
    /\ outcome' = "error"
    /\ error' = check_parameters
    /\ UNCHANGED <<n_estimators, paramVars, estimators_, f_pc, taskVars>>
    /\ UNCHANGED <<samplerVars, metricVars, gridVars>>

(* fit raises ValueError because the forest already has more trees *)
FitShrinkRejected(nf, y) ==
    /\ f_pc = "idle"
    /\ fit_no < MaxFits
    /\ check_parameters = "none"
    /\ n_estimators - Len(kept_estimators(warm_start, estimators_)) < 0
    /\ pre' = snapshot
    /\ fit_no' = fit_no + 1
    /\ SetAttrs(remap_output(nf, y))
    /\ estimators_' = kept_estimators(warm_start, estimators_)
    /\ outcome' = "error"
    /\ error' = "warm_start"
    /\ UNCHANGED <<n_estimators, paramVars, f_pc, taskVars>>
    /\ UNCHANGED <<samplerVars, metricVars, gridVars>>

(* fit finds nothing to grow, warns and returns *)
FitNoNewTrees(nf, y) ==
    /\ f_pc = "idle"
    /\ fit_no < MaxFits
    /\ check_parameters = "none"
    /\ n_estimators - Len(kept_estimators(warm_start, estimators_)) = 0
    /\ pre' = snapshot
    /\ fit_no' = fit_no + 1
    /\ SetAttrs(decapsulate(remap_output(nf, y)))
    /\ estimators_' = kept_estimators(warm_start, estimators_)
    /\ outcome' = "warn"
    /\ error' = "none"
    /\ UNCHANGED <<n_estimators, paramVars, f_pc, taskVars>>
    /\ UNCHANGED <<samplerVars, metricVars, gridVars>>

(* fit creates the new trees, seeds them and enters the Parallel call *)
FitDispatch(nf, y) ==
    /\ f_pc = "idle"
    /\ fit_no < MaxFits
    /\ check_parameters = "none"
    /\ n_estimators - Len(kept_estimators(warm_start, estimators_)) > 0
    /\ pre' = snapshot
    /\ fit_no' = fit_no + 1
    /\ SetAttrs(remap_output(nf, y))
    /\ estimators_' = kept_estimators(warm_start, estimators_)
    /\ trees' = make_estimators(
                    n_estimators - Len(kept_estimators(warm_start, estimators_)),
                    skipped_draws(warm_start, estimators_),
                    fit_no + 1)
    /\ f_y' = y
    /\ dispatched' = 0
    /\ running' = {}
    /\ completed' = <<>>
    /\ f_pc' = "parallel"
    /\ outcome' = "none"
    /\ error' = "none"
    /\ UNCHANGED <<n_estimators, paramVars>>
    /\ UNCHANGED <<samplerVars, metricVars, gridVars>>

(* a free worker takes the next task of the Parallel call *)
TaskStart ==
    /\ f_pc = "parallel"
    /\ dispatched < Len(trees)
    /\ Cardinality(running) < n_jobs
    /\ dispatched' = dispatched + 1
    /\ running' = running \cup {dispatched + 1}
    /\ UNCHANGED <<n_estimators, paramVars, estimators_, attrVars, f_pc, f_y,
                   trees, completed, pre, outcome, error, fit_no>>
    /\ UNCHANGED <<samplerVars, metricVars, gridVars>>

(* _parallel_build_trees returns the tree it has fit *)
TaskReturns(i) ==
    /\ f_pc = "parallel"
    /\ i \in running
    /\ ~SamplerRaises(f_y, target_imbalance_ratio)
    /\ trees' = [trees EXCEPT ![i].fitted = TRUE]
    /\ running' = running \ {i}
    /\ completed' = Append(completed, i)
    /\ UNCHANGED <<n_estimators, paramVars, estimators_, attrVars, f_pc, f_y,
                   dispatched, pre, outcome, error, fit_no>>
    /\ UNCHANGED <<samplerVars, metricVars, gridVars>>

(* _generate_sample_indices raises inside a task; Parallel re-raises and
   fit ends with the ValueError *)
TaskRaises(i) ==
    /\ f_pc = "parallel"
    /\ i \in running
    /\ SamplerRaises(f_y, target_imbalance_ratio)
    /\ f_pc' = "idle"
    /\ f_y' = <<>>
    /\ trees' = <<>>
    /\ dispatched' = 0
    /\ running' = {}
    /\ completed' = <<>>
    /\ outcome' = "error"
    /\ error' = "sampler"
    /\ UNCHANGED <<n_estimators, paramVars, estimators_, attrVars, pre, fit_no>>
    /\ UNCHANGED <<samplerVars, metricVars, gridVars>>

(* every task has returned: collect the trees and return self *)
FitJoin ==
    /\ f_pc = "parallel"
    /\ Len(completed) = Len(trees)
    /\ estimators_' = estimators_ \o collect(trees, completed)
    /\ SetAttrs(decapsulate([n_features_ |-> n_features_,
                             n_outputs_  |-> n_outputs_,
                             classes_    |-> classes_,
                             n_classes_  |-> n_classes_]))
    /\ f_pc' = "idle"
    /\ f_y' = <<>>
    /\ trees' = <<>>
    /\ dispatched' = 0
    /\ running' = {}
    /\ outcome' = "ok"
    /\ error' = "none"
    /\ UNCHANGED <<n_estimators, paramVars, completed, pre, fit_no>>
    /\ UNCHANGED <<samplerVars, metricVars, gridVars>>

NextFit ==
    \/ \E n \in 0..MaxTrees : SetNEstimators(n)
    \/ \E nf \in 1..MaxFeatures, y \in LabelVectors(MaxFitRows) :
          FitRejected(nf, y)
    \/ \E nf \in 1..MaxFeatures, y \in LabelVectors(MaxFitRows) :
          FitShrinkRejected(nf, y)
    \/ \E nf \in 1..MaxFeatures, y \in LabelVectors(MaxFitRows) :
          FitNoNewTrees(nf, y)
    \/ \E nf \in 1..MaxFeatures, y \in LabelVectors(MaxFitRows) :
          FitDispatch(nf, y)
    \/ TaskStart
    \/ \E i \in running : TaskReturns(i)
    \/ \E i \in running : TaskRaises(i)
    \/ FitJoin

SpecFit == InitFit /\ [][NextFit]_vars

(* ---------------------------------------------------------------------- *)
(* creonmetrics: pu_score and prior_squared_error                          *)
(* ---------------------------------------------------------------------- *)

(* Equal-length, non-empty pairs of a true and a predicted label vector. *)
Folds(n) == UNION {[1..k -> Labels] \X [1..k -> Labels] : k \in 1..n}

(* The priors tried; 0.015 is the prior of the module's own scorer. *)
Priors == {<<15, 1000>>, <<1, 2>>}

(* A number is kept as an exact fraction. The arrays are numpy arrays (the
   functions call .sum() on a comparison), so a division by zero does not
   raise: numpy returns nan for 0/0 and inf for x/0, with a RuntimeWarning. *)
Number(n, d) == [kind |-> "number", num |-> n, den |-> d]

true_divide(a, b) ==
    IF b.num = 0
    THEN [kind |-> IF a.num = 0 THEN "nan" ELSE "inf", num |-> 0, den |-> 1]
    ELSE Number(a.num * b.den, a.den * b.num)

multiply(a, b) == Number(a.num * b.num, a.den * b.den)

count(y_true, y_pred, t, p) ==
    Cardinality({i \in DOMAIN y_true : y_true[i] = t /\ y_pred[i] = p})

count_of(y, v) == Cardinality({i \in DOMAIN y : y[i] = v})

pu_score(y_true, y_pred) ==
    LET tp      == count(y_true, y_pred, 1, 1)
        n_pos   == IF tp > 0 THEN count_of(y_true, 1) ELSE 1
        recall  == true_divide(Number(tp, 1), Number(n_pos, 1))
        pr_true == true_divide(Number(count_of(y_pred, 1), 1),
                               Number(Len(y_pred), 1))
    IN  [recall  |-> recall,
         pr_true |-> pr_true,
         value   |-> true_divide(multiply(recall, recall), pr_true)]

prior_squared_error(y_true, y_pred, prior) ==
    LET unlabeled_pos == count(y_true, y_pred, -1, 1)
        unlabeled_n   == count_of(y_true, -1)
        rate          == true_divide(Number(unlabeled_pos, 1),
                                     Number(unlabeled_n, 1))
        diff          == Number(rate.num * prior[2] - prior[1] * rate.den,
                                rate.den * prior[2])
    IN  IF unlabeled_n = 0 THEN Number(0, 1) ELSE multiply(diff, diff)

InitMetrics ==
    /\ SamplerIdle
    /\ FitIdle
    /\ GridIdle
    /\ \E f \in Folds(MaxFoldRows) : m_y_true = f[1] /\ m_y_pred = f[2]
    /\ m_prior \in Priors
    /\ m_called = {}
    /\ m_pu = [recall |-> NoNumber, pr_true |-> NoNumber, value |-> NoNumber]
    /\ m_pse = NoNumber

CallPuScore ==
    /\ "pu_score" \notin m_called
    /\ m_called' = m_called \cup {"pu_score"}
    /\ m_pu' = pu_score(m_y_true, m_y_pred)
    /\ UNCHANGED <<m_y_true, m_y_pred, m_prior, m_pse>>
    /\ UNCHANGED <<samplerVars, fitVars, gridVars>>

CallPriorSquaredError ==
    /\ "prior_squared_error" \notin m_called
    /\ m_called' = m_called \cup {"prior_squared_error"}
    /\ m_pse' = prior_squared_error(m_y_true, m_y_pred, m_prior)
    /\ UNCHANGED <<m_y_true, m_y_pred, m_prior, m_pu>>
    /\ UNCHANGED <<samplerVars, fitVars, gridVars>>

NextMetrics ==
    \/ CallPuScore
    \/ CallPriorSquaredError

SpecMetrics == InitMetrics /\ [][NextMetrics]_vars

(* ---------------------------------------------------------------------- *)
(* frankenscorer: FrankenScorer and the score-grid aggregator              *)
(* ---------------------------------------------------------------------- *)

(* The keys of the dictionary FrankenScorer.__call__ builds. *)
MetricNames ==
    {"labeled_acc", "labeled_prec", "labeled_recall", "labeled_f1",
     "labeled_roc_auc", "labeled_avg_prec", "labeled_brier",
     "labeled_brier_pos", "labeled_brier_neg", "confusion_matrix_lab",
     "pr_one_unlabeled", "assumed_brier", "assumed_brier_neg", "assumed_f1",
     "assumed_f1beta10", "confusion_matrix_un", "pu_score"}

score_index == "SCORE"

(* A dictionary value: its array shape and, for a matrix, its cells in
   ravel() order. The value of a scalar metric is not modelled. *)
Scalar == [shape |-> <<>>, cells |-> <<>>]

(* The "undefined" result of a metric whose rows are all filtered out. *)
Undefined == [shape |-> <<0>>, cells |-> <<>>]

scalar_metric(y_true, y_pred) == Scalar

(* sklearn's confusion_matrix: rows are true labels, columns predicted
   labels, over the sorted labels that occur in either vector. *)
confusion_matrix(y_true, y_pred) ==
    LET labels == SortedSeq({y_true[i] : i \in DOMAIN y_true}
                            \cup {y_pred[i] : i \in DOMAIN y_pred})
        n      == Len(labels)
    IN  [shape |-> <<n, n>>,
         cells |-> [c \in 1..(n * n) |->
                      count(y_true, y_pred,
                            labels[((c - 1) \div n) + 1],
                            labels[((c - 1) % n) + 1])]]

(* metric(y_true, y_pred) for the metric function handed to an adapter:
   confusion_matrix, or one of the scalar metrics. *)
apply_metric(metric, y_true, y_pred) ==
    IF metric = "confusion_matrix" THEN confusion_matrix(y_true, y_pred)
    ELSE scalar_metric(y_true, y_pred)

RECURSIVE take_rows(_, _, _)
(* y[mask]: the entries of y at the rows that `keep` holds, in order. *)
take_rows(y, keep, from) ==
    IF from > Len(y) THEN <<>>
    ELSE (IF from \in keep THEN <<y[from]>> ELSE <<>>)
         \o take_rows(y, keep, from + 1)

labeled_rows(y_true) == {i \in DOMAIN y_true : y_true[i] # -1}

(* Applies the metric to the rows whose true label is not Unlabeled. *)
labeled_metric(y_true, y_pred, metric) ==
    IF labeled_rows(y_true) = {} THEN Undefined
    ELSE apply_metric(metric,
                      take_rows(y_true, labeled_rows(y_true), 1),
                      take_rows(y_pred, labeled_rows(y_true), 1))

(* Applies the metric with every Unlabeled true label taken as Negative. *)
assumed_metric(y_true, y_pred, metric) ==
    apply_metric(metric,
                 [i \in DOMAIN y_true |->
                     IF y_true[i] = -1 THEN 0 ELSE y_true[i]],
                 y_pred)

(* The folds on which every metric of the dictionary is computed:
   roc_auc_score raises ValueError unless the true labels it is given hold
   two classes, and precision_score, recall_score and f1_score raise on a
   prediction outside the two classes. *)
scorable(y_true, y_pred) ==
    /\ {y_true[i] : i \in labeled_rows(y_true)} = {0, 1}
    /\ {y_pred[i] : i \in DOMAIN y_pred} \subseteq {0, 1}

(* FrankenScorer.__call__: the metric dictionary with its SCORE entry. *)
score_data(y_true, y_pred, decision) ==
    LET data == [k \in MetricNames |->
                   IF k = "confusion_matrix_lab"
                   THEN labeled_metric(y_true, y_pred, "confusion_matrix")
                   ELSE IF k = "confusion_matrix_un"
                   THEN assumed_metric(y_true, y_pred, "confusion_matrix")
                   ELSE IF k \in {"pr_one_unlabeled", "pu_score"}
                   THEN scalar_metric(y_true, y_pred)
                   ELSE IF k \in {"labeled_acc", "labeled_prec",
                                  "labeled_recall", "labeled_f1",
                                  "labeled_roc_auc", "labeled_avg_prec",
                                  "labeled_brier", "labeled_brier_pos",
                                  "labeled_brier_neg"}
                   THEN labeled_metric(y_true, y_pred, "scalar")
                   ELSE assumed_metric(y_true, y_pred, "scalar")]
    IN  [k \in MetricNames \cup {score_index} |->
            IF k = score_index THEN data[decision] ELSE data[k]]

RECURSIVE str(_)
(* str(split): the decimal digits of a split index. *)
str(n) == IF n < 10 THEN <<n>> ELSE str(n \div 10) \o <<n % 10>>

(* The column "<prefix>_<key>_<tpe><split>"; the prefix is "" for the plain
   column, and extract_scores_from_nested leaves tpe and split out. *)
Column(prefix, key, tpe, digits) ==
    [prefix |-> prefix, key |-> key, tpe |-> tpe, split |-> digits]

has_shape_2x2(v) == v.shape = <<2, 2>>

(* The unpacking with fn stored as tp as well. *)
ravel_bug(v) == [tn |-> v.cells[1], fp |-> v.cells[2], fn |-> v.cells[3],
                 tp |-> v.cells[3]]

(* tn, fp, fn, tp = v.ravel() *)
ravel(v) == [tn |-> v.cells[1], fp |-> v.cells[2], fn |-> v.cells[3],
             tp |-> v.cells[4]]

(* The entries that one dictionary item adds to the row dictionary d:
   pairs <<column, value>>. *)
item_entries(k, v, tpe, digits) ==
    (IF has_shape_2x2(v)
     THEN {<<Column("tn", k, tpe, digits), ravel(v).tn>>,
           <<Column("fp", k, tpe, digits), ravel(v).fp>>,
           <<Column("fn", k, tpe, digits), ravel(v).fn>>,
           <<Column("tp", k, tpe, digits), ravel(v).tp>>}
     ELSE {})
    \cup
    (IF score_index # k THEN {<<Column("", k, tpe, digits), v>>} ELSE {})

splits_of(c) == IF c # 0 THEN c ELSE 3

(* The flat table of extract_score_grid for one row of cv_results_. *)
master_dict(results, splits) ==
    UNION {item_entries(k, results[<<split, tpe>>][k], tpe, str(split)) :
              k \in MetricNames \cup {score_index},
              split \in 0..(splits - 1),
              tpe \in {"test", "train"}}

(* The rows of extract_scores_from_nested, one per score dictionary. *)
nested_rows(scores) ==
    [i \in DOMAIN scores |->
        UNION {item_entries(k, scores[i][k], "", <<>>) :
                  k \in MetricNames \cup {score_index}}]

(* s[:-1] of a column name: the name without its last character, which is
   the last digit of its split index. *)
drop_last(c) ==
    [c EXCEPT !.split = SubSeq(c.split, 1, Len(c.split) - 1)]

score_labels(columns) == {drop_last(c) : c \in columns}

(* The mean_ and std_ columns, each with the columns it is computed over. *)
derived_columns(columns) ==
    UNION {LET over == {c \in columns : label = drop_last(c)}
           IN  {[stat |-> "mean", label |-> label, over |-> over],
                [stat |-> "std", label |-> label, over |-> over]} :
              label \in score_labels(columns)}

InitSearch ==
    /\ SamplerIdle
    /\ FitIdle
    /\ MetricsIdle
    /\ decision_score = "labeled_f1"
    /\ g_pc = "new"
    /\ g_y_true = <<>>
    /\ g_y_pred = <<>>
    /\ cv_results_ = <<>>
    /\ score_grid = <<>>

(* A searcher made without cv: the aggregator assumes 3 splits. *)
InitScore == InitSearch /\ cv = 0 /\ fold_rows = MaxFoldRows

InitGrid == InitSearch /\ cv \in 1..MaxSplits /\ fold_rows = GridFoldRows

ChangeDecisionScore(d) ==
    /\ g_pc = "new"
    /\ d # decision_score
    /\ decision_score' = d
    /\ UNCHANGED <<cv, fold_rows, g_pc, g_y_true, g_y_pred, cv_results_,
                   score_grid>>
    /\ UNCHANGED <<samplerVars, fitVars, metricVars>>

(* The search scores the estimator on the train and the test part of every
   split; the model gives every part the same fold. *)
SearchFit(y_true, y_pred) ==
    /\ g_pc = "new"
    /\ scorable(y_true, y_pred)
    /\ g_y_true' = y_true
    /\ g_y_pred' = y_pred
    /\ LET data == score_data(y_true, y_pred, decision_score)
       IN  cv_results_' =
              [x \in (0..(splits_of(cv) - 1)) \X {"test", "train"} |-> data]
    /\ g_pc' = "searched"
    /\ UNCHANGED <<decision_score, cv, fold_rows, score_grid>>
    /\ UNCHANGED <<samplerVars, fitVars, metricVars>>

(* A metric raises inside the scorer and the search fails. *)
SearchRaises(y_true, y_pred) ==
    /\ g_pc = "new"
    /\ ~scorable(y_true, y_pred)
    /\ g_pc' = "raised"
    /\ UNCHANGED <<decision_score, cv, fold_rows, g_y_true, g_y_pred,
                   cv_results_, score_grid>>
    /\ UNCHANGED <<samplerVars, fitVars, metricVars>>

ExtractScoreGrid ==
    /\ g_pc = "searched"
    /\ LET flat == master_dict(cv_results_, splits_of(cv))
       IN  score_grid' =
              [flat    |-> <<flat>>,
               derived |-> derived_columns({e[1] : e \in flat})]
    /\ g_pc' = "grid"
    /\ UNCHANGED <<decision_score, cv, fold_rows, g_y_true, g_y_pred,
                   cv_results_>>
    /\ UNCHANGED <<samplerVars, fitVars, metricVars>>

ExtractScoresFromNested ==
    /\ g_pc = "searched"
    /\ score_grid' =
          [flat    |-> nested_rows([i \in 1..splits_of(cv) |->
                                       cv_results_[<<i - 1, "test">>]]),
           derived |-> {}]
    /\ g_pc' = "nested"
    /\ UNCHANGED <<decision_score, cv, fold_rows, g_y_true, g_y_pred,
                   cv_results_>>
    /\ UNCHANGED <<samplerVars, fitVars, metricVars>>

NextSearch ==
    \/ \E d \in MetricNames : ChangeDecisionScore(d)
    \/ \E f \in Folds(fold_rows) : SearchFit(f[1], f[2])
    \/ \E f \in Folds(fold_rows) : SearchRaises(f[1], f[2])
    \/ ExtractScoreGrid
    \/ ExtractScoresFromNested

SpecScore == InitScore /\ [][NextSearch]_vars

SpecGrid == InitGrid /\ [][NextSearch]_vars

(* ---------------------------------------------------------------------- *)
(* Properties of the sampler                                               *)
(* ---------------------------------------------------------------------- *)
Min(a, b) == IF a <= b THEN a ELSE b

(* C1: for every label vector and every valid ratio the call completes and
   the number of majority rows drawn is
   min(floor(minority_count / ratio), majority_available). *)
C1_MajorityDrawCapped ==
    s_pc = "done" =>
        /\ s_result = "returned"
        /\ Cardinality(maj_indices) =
               Min((min_samples(s_y) * s_ratio[2]) \div s_ratio[1],
                   Cardinality(majority_rows(s_y)))

(* C5: a returned plan has exactly minority_count + majority_sample_count
   entries, and each entry is a row of the minority group or one of the
   majority rows drawn without replacement. *)
C5_PlanWithinReducedPool ==
    s_result = "returned" =>
        /\ maj_indices \subseteq majority_rows(s_y)
        /\ Cardinality(maj_indices) =
               (Cardinality(min_indices(s_y)) * s_ratio[2]) \div s_ratio[1]
        /\ BagCardinality(sample_indices) =
               Cardinality(min_indices(s_y)) + Cardinality(maj_indices)
        /\ BagToSet(sample_indices) \subseteq min_indices(s_y) \cup maj_indices

(* A plan over a proper subsample of the majority group, with a row drawn
   more than once in the bootstrap step. *)
C5_Witness ==
    /\ s_result = "returned"
    /\ minority_class_idx(s_y) # majority_class_idx(s_y)
    /\ maj_indices # {}
    /\ maj_indices # majority_rows(s_y)
    /\ \E i \in BagToSet(sample_indices) : sample_indices[i] >= 2

(* C11: whenever the label vector holds at least two distinct labels, the
   minority group and the majority group are two different groups, also
   when group counts are tied, and the reduced pool of minority rows
   followed by the drawn majority rows holds no row more than once. *)
C11_DistinctGroups ==
    (s_result = "returned" /\ Len(unique(s_y)) >= 2) =>
        /\ minority_class_idx(s_y) # majority_class_idx(s_y)
        /\ min_indices(s_y) \cap majority_rows(s_y) = {}
        /\ \A i \in BagToSet(hstack(min_indices(s_y), maj_indices)) :
              CopiesIn(i, hstack(min_indices(s_y), maj_indices)) = 1

(* ---------------------------------------------------------------------- *)
(* Properties of fit                                                       *)
(* ---------------------------------------------------------------------- *)

(* C2: fit accepts target_imbalance_ratio exactly when 0.1 < ratio <= 1.0;
   a ratio of 0.1, lower, or above 1.0 is rejected before any tree is
   created or fit, and a ratio of 1.0 is accepted. *)
C2_RatioGate ==
    LET r == target_imbalance_ratio
        inside == r[2] < 10 * r[1] /\ r[1] <= r[2]
    IN  /\ f_pc = "parallel" => inside
        /\ (outcome # "none" /\ bootstrap /\ n_estimators > 0) =>
               (error = "ratio" <=> ~inside)
        /\ (outcome # "none" /\ ~inside) =>
               /\ outcome = "error"
               /\ trees = <<>>
               /\ estimators_ = pre.estimators_
        /\ (outcome # "none" /\ r[1] * 10 = r[2]) => outcome = "error"
        /\ r[1] = r[2] => error # "ratio"

(* A fit with the ratio exactly 0.1 has been rejected. *)
C2_Witness ==
    /\ outcome = "error"
    /\ error = "ratio"
    /\ target_imbalance_ratio = <<1, 10>>

(* C3: a fit rejected for a configuration error leaves the tree collection
   and n_features_, n_outputs_, classes_ and n_classes_ as they were before
   the call. *)
C3_RejectedFitChangesNothing ==
    (outcome = "error" /\ error \in {"ratio", "bootstrap", "warm_start"}) =>
        snapshot = pre

(* C4: a successful fit leaves exactly n_estimators trees; under warm start
   the previous trees stay as an unchanged prefix and only the missing trees
   are appended; without warm start no previous tree is kept; a warm start
   that grows by zero trees changes no tree and warns. *)
C4_TreeCount ==
    outcome \in {"ok", "warn"} =>
        /\ Len(estimators_) = n_estimators
        /\ warm_start =>
              /\ Len(pre.estimators_) <= Len(estimators_)
              /\ SubSeq(estimators_, 1, Len(pre.estimators_)) = pre.estimators_
              /\ \A k \in DOMAIN estimators_ :
                    k > Len(pre.estimators_) => estimators_[k].born = fit_no
        /\ ~warm_start =>
              \A k \in DOMAIN estimators_ : estimators_[k].born = fit_no
        /\ (warm_start /\ Len(pre.estimators_) = n_estimators) =>
              /\ outcome = "warn"
              /\ estimators_ = pre.estimators_
        /\ outcome = "warn" => estimators_ = pre.estimators_

(* A warm-start fit has grown a forest that already had trees. *)
C4_Witness ==
    /\ outcome = "ok"
    /\ warm_start
    /\ Len(pre.estimators_) > 0
    /\ Len(estimators_) > Len(pre.estimators_)

(* C10: whatever the order in which the parallel tasks finish, every new
   tree has its seed before the first task is dispatched, the tree
   collection is not modified while the Parallel call is in progress, and
   after the join the trees stand in tree-index order, tree k holding the
   k-th draw of the seed stream as in a sequential fit. *)
C10_OrderIndependent ==
    /\ f_pc = "parallel" =>
          /\ \A i \in DOMAIN trees :
                trees[i].random_state = Len(estimators_) + i
          /\ estimators_ = IF warm_start THEN pre.estimators_ ELSE <<>>
    /\ outcome = "ok" =>
          \A k \in DOMAIN estimators_ :
              /\ estimators_[k].random_state = k
              /\ estimators_[k].fitted

(* A fit has joined after its second task finished before its first. *)
C10_Witness ==
    /\ outcome = "ok"
    /\ Len(completed) >= 2
    /\ completed[1] > completed[2]

(* ---------------------------------------------------------------------- *)
(* Properties of the PU metrics                                            *)
(* ---------------------------------------------------------------------- *)

(* C6: pu_score and prior_squared_error complete on every equal-length,
   non-empty pair of label vectors and return a defined number, with no
   division by zero; with zero true positives the recall of pu_score is 0,
   and with zero unlabeled rows prior_squared_error is exactly 0. *)
C6_MetricsDefined ==
    /\ "pu_score" \in m_called =>
          /\ m_pu.value.kind = "number"
          /\ m_pu.pr_true.num # 0
          /\ count(m_y_true, m_y_pred, 1, 1) = 0 => m_pu.recall.num = 0
    /\ "prior_squared_error" \in m_called =>
          /\ m_pse.kind = "number"
          /\ count_of(m_y_true, -1) = 0 => m_pse.num = 0

(* ---------------------------------------------------------------------- *)
(* Properties of the score grid                                            *)
(* ---------------------------------------------------------------------- *)
ColumnsOf(row) == {e[1] : e \in row}

ValueAt(row, c) == (CHOOSE e \in row : e[1] = c)[2]

(* The dictionary value behind the columns of metric k; every split of the
   modelled search holds the same dictionary. *)
ScoredValue(k) == cv_results_[<<0, "test">>][k]

ConfusionPrefixes == {"tn", "fp", "fn", "tp"}

(* C7: in the table of extract_score_grid and of
   extract_scores_from_nested every 2x2 dictionary entry contributes exactly
   the four columns tn, fp, fn, tp, every other entry exactly one column,
   and the SCORE entry contributes no column. *)
C7_ColumnsPerEntry ==
    g_pc \in {"grid", "nested"} =>
        \A r \in DOMAIN score_grid.flat :
            LET columns == ColumnsOf(score_grid.flat[r])
            IN  /\ \A c \in columns : c.key # score_index
                /\ \A c \in columns :
                      {x.prefix : x \in {z \in columns :
                                            /\ z.key = c.key
                                            /\ z.tpe = c.tpe
                                            /\ z.split = c.split}}
                        = IF has_shape_2x2(ScoredValue(c.key))
                          THEN ConfusionPrefixes
                          ELSE {""}

(* C8: for every number of splits each metric has, per train/test, exactly
   one group; the group holds the metric's columns of every split
   0..splits-1 and nothing else, and it gets exactly one mean_ and one std_
   column, computed over all of these columns. *)
C8_OneGroupPerMetric ==
    g_pc = "grid" =>
        LET columns == ColumnsOf(score_grid.flat[1])
            same(c) == {z \in columns : /\ z.prefix = c.prefix
                                        /\ z.key = c.key
                                        /\ z.tpe = c.tpe}
            stats(c) == {d \in score_grid.derived :
                            /\ d.label.prefix = c.prefix
                            /\ d.label.key = c.key
                            /\ d.label.tpe = c.tpe}
        IN  \A c \in columns :
                /\ {z.split : z \in same(c)}
                      = {str(i) : i \in 0..(splits_of(cv) - 1)}
                /\ {d.stat : d \in stats(c)} = {"mean", "std"}
                /\ Cardinality(stats(c)) = 2
                /\ \A d \in stats(c) : d.over = same(c)

ConfusionSum(row, k, tpe, digits) ==
    ValueAt(row, Column("tn", k, tpe, digits))
    + ValueAt(row, Column("fp", k, tpe, digits))
    + ValueAt(row, Column("fn", k, tpe, digits))
    + ValueAt(row, Column("tp", k, tpe, digits))

ConfusionCells(row, k) ==
    {c \in ColumnsOf(row) : c.key = k /\ c.prefix = "tn"}

(* C9 as stated: for confusion_matrix_lab and confusion_matrix_un the four
   decomposed columns of a scored fold sum to the number of rows of the
   fold. *)
C9_SumIsFoldSize ==
    g_pc \in {"grid", "nested"} =>
        \A r \in DOMAIN score_grid.flat :
            \A k \in {"confusion_matrix_lab", "confusion_matrix_un"} :
                \A c \in ConfusionCells(score_grid.flat[r], k) :
                    ConfusionSum(score_grid.flat[r], k, c.tpe, c.split)
                        = Len(g_y_true)

(* C9 as amended: the four columns of confusion_matrix_un sum to the number
   of rows of the scored fold, those of confusion_matrix_lab to the number
   of its rows whose true label is not Unlabeled; both sets of columns are
   written for every scored fold. *)
C9_SumIsRowsCounted ==
    g_pc \in {"grid", "nested"} =>
        \A r \in DOMAIN score_grid.flat :
            /\ ConfusionCells(score_grid.flat[r], "confusion_matrix_lab") # {}
            /\ ConfusionCells(score_grid.flat[r], "confusion_matrix_un") # {}
            /\ \A c \in ConfusionCells(score_grid.flat[r],
                                       "confusion_matrix_un") :
                  ConfusionSum(score_grid.flat[r], "confusion_matrix_un",
                               c.tpe, c.split) = Len(g_y_true)
            /\ \A c \in ConfusionCells(score_grid.flat[r],
                                       "confusion_matrix_lab") :
                  ConfusionSum(score_grid.flat[r], "confusion_matrix_lab",
                               c.tpe, c.split)
                      = Cardinality({i \in DOMAIN g_y_true :
                                        g_y_true[i] \in {0, 1}})

(* A grid over a fold that has an unlabeled row, a false negative and a
   true positive. *)
C9_Witness ==
    /\ g_pc = "grid"
    /\ \E i \in DOMAIN g_y_true : g_y_true[i] = -1
    /\ \E i \in DOMAIN g_y_true : g_y_true[i] = 1 /\ g_y_pred[i] = 1
    /\ ConfusionSum(score_grid.flat[1], "confusion_matrix_lab", "test", <<0>>)
          < Len(g_y_true)

====
